---- MODULE Spec2Model ----
(***************************************************************************)
(* QMasonryLayout (src/masonry.py): the two masonry layout engines,        *)
(* QMasonryBoxLayout (fixed column count) and QMasonryFlowLayout (fixed    *)
(* column width), as one state machine.  The variable engine says which    *)
(* class the layout instance is.                                           *)
(*                                                                         *)
(* Numbers.  Python's true division yields floats; they are modelled as    *)
(* exact rationals <<n, d>> with d > 0.  The Qt binding takes ints for     *)
(* QRect(...) and setFixedSize(...): a float argument is converted by      *)
(* truncation toward zero (Trunc), as int(...) does.                       *)
(*                                                                         *)
(* Widgets.  An item is a QWidgetItem over a QWidget: hint is what         *)
(* item.sizeHint() returns, wsize what widget.width()/height() return,     *)
(* pinned the dimensions fixed by setFixedSize/setFixedWidth and geom the  *)
(* last rectangle given to item.setGeometry.  Pinning a dimension makes    *)
(* both the size hint and the widget size equal to the pinned value.       *)
(*                                                                         *)
(* _overflowStrategy has no setter in either class.  Spec starts from the  *)
(* constructor's AutoZoom; SpecOverflow starts from any value given to the *)
(* attribute before the layout is used.                                    *)
(***************************************************************************)
EXTENDS Integers, Sequences, FiniteSets, TLC

\* ---------------------------------------------------------------- bounds
MaxItems == 2
MaxPasses == 2
MaxSets == 1

\* ------------------------------------------------------- program constants
DefaultColumnCount == 3
DefaultColumnWidth == 200
DefaultSpacing == 16

\* ------------------------------------------------------------ input domains
RegionWidths == {100, 640}
NaturalSizes == {<<200, 100>>, <<150, 200>>, <<0, 50>>}
ColumnCounts == {1, 2}
ColumnWidths == {150}
Spacings == {0}
MarginChoices == {[left |-> 9, top |-> 5, right |-> 7]}

\* --------------------------------------------------------------- strategies
Invalid == "Invalid"
HorizontalAdaptationStrategy == {"NoAdaption", "Spacing", "AutoZoom"}
VerticalExpansionStrategy == {"HeightBalance", "OrderInsert", "RandomInsert"}
OverflowStrategy == {"Ignore", "AutoZoom", "AutoCrop"}

\* ------------------------------------------------------------------ numbers
Max(a, b) == IF a >= b THEN a ELSE b

Min(a, b) == IF a <= b THEN a ELSE b

\* A rational is a pair <<n, d>> with d > 0, not always reduced: two pairs
\* are the same number when REq says so.
RInt(i) == <<i, 1>>

\* The sum over the larger denominator when it is a multiple of the other.
RAdd(p, q) ==
    IF p[2] % q[2] = 0 THEN <<p[1] + q[1] * (p[2] \div q[2]), p[2]>>
    ELSE IF q[2] % p[2] = 0 THEN <<p[1] * (q[2] \div p[2]) + q[1], q[2]>>
    ELSE <<p[1] * q[2] + q[1] * p[2], p[2] * q[2]>>

RSub(p, q) == RAdd(p, <<-q[1], q[2]>>)

\* h / w in lowest terms, for w > 0
Ratio(h, w) ==
    LET common == {g \in 1..w : h % g = 0 /\ w % g = 0}
        gcd == CHOOSE g \in common : \A k \in common : k <= g
    IN  <<h \div gcd, w \div gcd>>

RMul(p, q) == <<p[1] * q[1], p[2] * q[2]>>

\* p / i for an integer i > 0
RDivInt(p, i) == <<p[1], p[2] * i>>

REq(p, q) == p[1] * q[2] = q[1] * p[2]

RLt(p, q) == p[1] * q[2] < q[1] * p[2]

RLe(p, q) == p[1] * q[2] <= q[1] * p[2]

Floor(p) == p[1] \div p[2]

Trunc(p) == IF p[1] >= 0 THEN p[1] \div p[2] ELSE -((-p[1]) \div p[2])

RECURSIVE RMaxFrom(_, _)
RMaxFrom(s, k) ==
    IF k = Len(s) THEN s[k]
    ELSE LET r == RMaxFrom(s, k + 1) IN IF RLt(s[k], r) THEN r ELSE s[k]

RMax(s) == RMaxFrom(s, 1)

\* -------------------------------------------------------------------- state
VARIABLES engine, horizontalAdaptationStrategy, verticalExpansionStrategy,
          overflowStrategy, columnCount, columnWidth, horizontalSpacing,
          verticalSpacing, margin, items, item_ratios, pass, passes, setterCalls

vars == <<engine, horizontalAdaptationStrategy, verticalExpansionStrategy,
          overflowStrategy, columnCount, columnWidth, horizontalSpacing,
          verticalSpacing, margin, items, item_ratios, pass, passes, setterCalls>>

config == <<horizontalAdaptationStrategy, verticalExpansionStrategy,
            overflowStrategy, columnCount, columnWidth, horizontalSpacing,
            verticalSpacing>>

NoneCount == 0
NoneWidth == <<0, 0>>
NoGeom == <<>>
NoFault == "none"
ValueError == "ValueError"
ZeroDivisionError == "ZeroDivisionError"

\* A widget with its natural size, before any layout touched it.
NewItem(nat) == [hint |-> nat, wsize |-> nat, pinned |-> {}, geom |-> NoGeom]

\* QWidget.setFixedSize(w, h)
SetFixedSize(it, w, h) ==
    [it EXCEPT !.pinned = {"w", "h"}, !.hint = <<w, h>>, !.wsize = <<w, h>>]

\* QWidget.setFixedWidth(w)
SetFixedWidth(it, w) ==
    [it EXCEPT !.pinned = @ \cup {"w"}, !.hint = <<w, @[2]>>, !.wsize = <<w, @[2]>>]

\* QLayoutItem.setGeometry(rect): the widget takes the rectangle, a pinned
\* dimension keeps its pinned value.
SetItemGeometry(it, rect) ==
    [it EXCEPT !.geom = rect,
               !.wsize = <<IF "w" \in it.pinned THEN it.wsize[1] ELSE rect[3],
                           IF "h" \in it.pinned THEN it.wsize[2] ELSE rect[4]>>]

\* ------------------------------------------------------- Region Resolver
\* QMasonryBoxLayout.calculateColumnWidth: true division, a float.
calculateColumnWidth(W, m, spaceX, count) ==
    RDivInt(RInt(W - m.left - m.right - spaceX * (count - 1)), count)

\* calculateColumnCount with the spacing left out of the divisor.
calculateColumnCountNoSpacing(W, m, spaceX, width) ==
    Max(1, (W - m.left - m.right + spaceX) \div width)

\* QMasonryFlowLayout.calculateColumnCount: floor division of ints.
calculateColumnCount(W, m, spaceX, width) ==
    Max(1, (W - m.left - m.right + spaceX) \div (width + spaceX))

\* ----------------------------------------------------- Overflow Resolver
\* _handleOverflow whose AutoZoom branch only sets the width, as AutoCrop does.
handleOverflowCropOnly(it, itemHeight, itemWidth, cw, ov) ==
    IF ~REq(RInt(it.wsize[1]), cw)
    THEN CASE ov \in {"AutoZoom", "AutoCrop"} ->
                 [item |-> SetFixedWidth(it, Trunc(cw)), fault |-> NoFault]
           [] ov = "Ignore" -> [item |-> it, fault |-> NoFault]
           [] OTHER -> [item |-> it, fault |-> ValueError]
    ELSE [item |-> it, fault |-> NoFault]

\* Both classes' _handleOverflow; cw is self.columnWidth().
handleOverflow(it, itemHeight, itemWidth, cw, ov) ==
    IF ~REq(RInt(it.wsize[1]), cw)
    THEN CASE ov = "AutoZoom" ->
                 IF itemWidth = 0
                 THEN [item |-> it, fault |-> ZeroDivisionError]
                 ELSE LET columnHeight ==
                              Floor(RDivInt(RMul(RInt(itemHeight), cw), itemWidth))
                      IN  [item |-> SetFixedSize(it, Trunc(cw), columnHeight),
                           fault |-> NoFault]
           [] ov = "AutoCrop" ->
                 [item |-> SetFixedWidth(it, Trunc(cw)), fault |-> NoFault]
           [] ov = "Ignore" -> [item |-> it, fault |-> NoFault]
           [] OTHER -> [item |-> it, fault |-> ValueError]
    ELSE [item |-> it, fault |-> NoFault]

\* ------------------------------------------------------- Column Selector
\* The HeightBalance loop: minColumnTotalHeight stays columnTotalHeights[0],
\* every column strictly below it replaces the target.
RECURSIVE ScanColumns(_, _, _)
ScanColumns(heights, k, target) ==
    IF k > Len(heights) THEN target
    ELSE ScanColumns(heights, k + 1,
                     IF RLt(heights[k], heights[1]) THEN k - 1 ELSE target)

\* _handleColumnSelection without the raise of its else branch.
handleColumnSelectionNoRaise(itemIndex, heights, ve, count, rnd) ==
    CASE ve = "HeightBalance" -> [col |-> ScanColumns(heights, 1, 0), fault |-> NoFault]
      [] ve = "OrderInsert" -> [col |-> itemIndex % count, fault |-> NoFault]
      [] ve = "RandomInsert" -> [col |-> rnd, fault |-> NoFault]
      [] OTHER -> [col |-> 0, fault |-> NoFault]

\* Both classes' _handleColumnSelection; rnd is what random.randint returns.
handleColumnSelection(itemIndex, heights, ve, count, rnd) ==
    CASE ve = "HeightBalance" -> [col |-> ScanColumns(heights, 1, 0), fault |-> NoFault]
      [] ve = "OrderInsert" -> [col |-> itemIndex % count, fault |-> NoFault]
      [] ve = "RandomInsert" -> [col |-> rnd, fault |-> NoFault]
      [] OTHER -> [col |-> 0, fault |-> ValueError]

\* ---------------------------------------------------- Position Calculator
Half == <<1, 2>>

\* x = margin.left() + w * (col + 0.5) + spaceX * col - itemWidth / 2
XOf(m, w, col, spaceX, itemWidth) ==
    RSub(RAdd(RAdd(RInt(m.left), RMul(w, RAdd(RInt(col), Half))), RInt(spaceX * col)),
         RMul(RInt(itemWidth), Half))

Advance(heights, col, by) == [heights EXCEPT ![col + 1] = RAdd(@, by)]

\* QRect(x, y, itemWidth, itemHeight)
QRect(x, y, w, h) == <<Trunc(x), Trunc(y), w, h>>

\* QMasonryBoxLayout._handlePosition
handlePositionBox(ha, m, spaceX, spaceY, col, heights, itemWidth, itemHeight, it, ratio, cw) ==
    LET x == XOf(m, cw, col, spaceX, itemWidth)
        y == RAdd(RInt(m.top), heights[col + 1])
    IN  CASE ha \in {"Spacing", "NoAdaption"} ->
               [item |-> it,
                heights |-> Advance(heights, col, RInt(itemHeight + spaceY)),
                rect |-> QRect(x, y, itemWidth, itemHeight), fault |-> NoFault]
          [] ha = "AutoZoom" ->
               LET columnHeight == RMul(cw, ratio)
               IN  [item |-> SetFixedSize(it, Trunc(cw), Trunc(columnHeight)),
                    heights |-> Advance(heights, col, RAdd(columnHeight, RInt(spaceY))),
                    rect |-> QRect(x, y, itemWidth, itemHeight), fault |-> NoFault]
          [] OTHER ->
               [item |-> it, heights |-> heights, rect |-> NoGeom, fault |-> ValueError]

\* QMasonryFlowLayout._handlePosition
handlePositionFlow(ha, W, m, spaceX, spaceY, col, heights, itemWidth, itemHeight, it, ratio, cw, count) ==
    LET realColumnWidth == RDivInt(RInt(W - m.left - m.right - spaceX * (count - 1)), count)
        y == RAdd(RInt(m.top), heights[col + 1])
    IN  CASE ha = "NoAdaption" ->
               [item |-> it,
                heights |-> Advance(heights, col, RInt(itemHeight + spaceY)),
                rect |-> QRect(XOf(m, cw, col, spaceX, itemWidth), y, itemWidth, itemHeight),
                fault |-> NoFault]
          [] ha = "Spacing" ->
               [item |-> it,
                heights |-> Advance(heights, col, RInt(itemHeight + spaceY)),
                rect |-> QRect(XOf(m, realColumnWidth, col, spaceX, itemWidth), y,
                               itemWidth, itemHeight),
                fault |-> NoFault]
          [] ha = "AutoZoom" ->
               LET columnHeight == RMul(realColumnWidth, ratio)
               IN  [item |-> SetFixedSize(it, Trunc(realColumnWidth), Trunc(columnHeight)),
                    heights |-> Advance(heights, col, RAdd(columnHeight, RInt(spaceY))),
                    rect |-> QRect(XOf(m, realColumnWidth, col, spaceX, itemWidth), y,
                                   itemWidth, itemHeight),
                    fault |-> NoFault]
          [] OTHER ->
               [item |-> it, heights |-> heights, rect |-> NoGeom, fault |-> ValueError]

handlePosition(eng, ha, W, m, spaceX, spaceY, col, heights, itemWidth, itemHeight, it, ratio, cw, count) ==
    IF eng = "Box"
    THEN handlePositionBox(ha, m, spaceX, spaceY, col, heights, itemWidth, itemHeight, it, ratio, cw)
    ELSE handlePositionFlow(ha, W, m, spaceX, spaceY, col, heights, itemWidth, itemHeight,
                            it, ratio, cw, count)

\* ------------------------------------------------- Layout Pass Orchestrator
\* One iteration of the loop of _doLayout over zip(_item_ratios, _items); i is
\* the 1-based position, itemIndex = i - 1.  A raised exception leaves the loop:
\* what was mutated before the raise stays mutated.
LoopBody(st, i, eng, ha, ve, ov, W, m, spaceX, spaceY, cw, count, ratios, rnd) ==
    LET item == st.items[i]
        itemWidth == item.hint[1]
        itemHeight == item.hint[2]
        o == handleOverflow(item, itemHeight, itemWidth, cw, ov)
        sel == handleColumnSelection(i - 1, st.heights, ve, count, rnd[i])
        p == handlePosition(eng, ha, W, m, spaceX, spaceY, sel.col, st.heights,
                            itemWidth, itemHeight, o.item, ratios[i], cw, count)
    IN  IF o.fault # NoFault
        THEN [st EXCEPT !.fault = o.fault, !.faultAt = i]
        ELSE IF sel.fault # NoFault
        THEN [st EXCEPT !.items[i] = o.item, !.fault = sel.fault, !.faultAt = i]
        ELSE IF p.fault # NoFault
        THEN [st EXCEPT !.items[i] = o.item, !.fault = p.fault, !.faultAt = i]
        ELSE [st EXCEPT !.items[i] = SetItemGeometry(p.item, p.rect),
                        !.heights = p.heights,
                        !.log = Append(@, [col |-> sel.col, before |-> st.heights,
                                           rect |-> p.rect, pre |-> item,
                                           post |-> p.item])]

RECURSIVE Loop(_, _, _, _, _, _, _, _, _, _, _, _, _, _, _)
Loop(st, i, n, eng, ha, ve, ov, W, m, spaceX, spaceY, cw, count, ratios, rnd) ==
    IF i > n \/ st.fault # NoFault THEN st
    ELSE Loop(LoopBody(st, i, eng, ha, ve, ov, W, m, spaceX, spaceY, cw, count, ratios, rnd),
              i + 1, n, eng, ha, ve, ov, W, m, spaceX, spaceY, cw, count, ratios, rnd)

\* _doLayout of either class, after the Region Resolver stored count and cw.
doLayout(eng, ha, ve, ov, W, m, spaceX, spaceY, cw, count, its, ratios, rnd) ==
    LET n == Min(Len(ratios), Len(its))
        st0 == [items |-> its, heights |-> [k \in 1..count |-> RInt(0)], log |-> <<>>,
                fault |-> NoFault, faultAt |-> 0]
        st == Loop(st0, 1, n, eng, ha, ve, ov, W, m, spaceX, spaceY, cw, count, ratios, rnd)
    IN  [items |-> st.items, heights |-> st.heights, log |-> st.log, fault |-> st.fault,
         faultAt |-> st.faultAt, n |-> n,
         size |-> IF st.fault = NoFault THEN <<W, Trunc(RMax(st.heights))>> ELSE <<0, 0>>]

\* What the last pass read and did (pass-local values of _doLayout).
NoPass == [W |-> 0, ha |-> "", ve |-> "", spaceX |-> 0, spaceY |-> 0,
           count |-> 0, width |-> NoneWidth, log |-> <<>>, heights |-> <<>>,
           fault |-> NoFault, faultAt |-> 0, n |-> 0, size |-> <<0, 0>>]

\* __init__ of either class; ov is the value of _overflowStrategy.
Constructed(ov) ==
    /\ engine \in {"Box", "Flow"}
    /\ horizontalAdaptationStrategy = "AutoZoom"
    /\ verticalExpansionStrategy = "HeightBalance"
    /\ overflowStrategy = ov
    /\ columnCount = IF engine = "Box" THEN DefaultColumnCount ELSE NoneCount
    /\ columnWidth = IF engine = "Box" THEN NoneWidth ELSE RInt(DefaultColumnWidth)
    /\ horizontalSpacing = DefaultSpacing
    /\ verticalSpacing = DefaultSpacing
    /\ margin \in MarginChoices
    /\ items = <<>>
    /\ item_ratios = <<>>
    /\ pass = NoPass
    /\ passes = 0
    /\ setterCalls = <<>>

\* ------------------------------------------------------------- operations
\* setGeometry(rect): super().setGeometry(rect), then _doLayout(rect), whose
\* returned QSize is dropped.
setGeometry(W) ==
    /\ passes < MaxPasses
    /\ LET count == IF engine = "Box" THEN columnCount
                    ELSE calculateColumnCount(W, margin, horizontalSpacing, columnWidth[1])
           cw == IF engine = "Box"
                 THEN calculateColumnWidth(W, margin, horizontalSpacing, columnCount)
                 ELSE columnWidth
           n == Min(Len(item_ratios), Len(items))
       IN  \E rnd \in IF verticalExpansionStrategy = "RandomInsert"
                      THEN [1..n -> 0..(count - 1)] ELSE {[i \in 1..n |-> 0]} :
             LET r == doLayout(engine, horizontalAdaptationStrategy,
                               verticalExpansionStrategy, overflowStrategy, W, margin,
                               horizontalSpacing, verticalSpacing, cw, count, items,
                               item_ratios, rnd)
             IN  /\ columnCount' = count
                 /\ columnWidth' = cw
                 /\ items' = r.items
                 /\ pass' = [W |-> W, ha |-> horizontalAdaptationStrategy,
                             ve |-> verticalExpansionStrategy,
                             spaceX |-> horizontalSpacing, spaceY |-> verticalSpacing,
                             count |-> count, width |-> cw, log |-> r.log,
                             heights |-> r.heights, fault |-> r.fault,
                             faultAt |-> r.faultAt, n |-> r.n, size |-> r.size]
    /\ passes' = passes + 1
    /\ UNCHANGED <<engine, horizontalAdaptationStrategy, verticalExpansionStrategy,
                   overflowStrategy, horizontalSpacing, verticalSpacing, margin,
                   item_ratios, setterCalls>>

\* addItem(item): the item is appended first; widget.height() / widget.width()
\* raises ZeroDivisionError for a widget of width 0, after the append.
addItem(nat) ==
    /\ Len(items) < MaxItems
    /\ items' = Append(items, NewItem(nat))
    /\ item_ratios' = IF nat[1] = 0 THEN item_ratios
                      ELSE Append(item_ratios, Ratio(nat[2], nat[1]))
    /\ UNCHANGED <<engine, config, margin, pass, passes, setterCalls>>

setHorizontalAdaptationStrategy(strategy) ==
    /\ Len(setterCalls) < MaxSets
    /\ setterCalls' = Append(setterCalls, "setHorizontalAdaptationStrategy")
    /\ horizontalAdaptationStrategy' = strategy
    /\ UNCHANGED <<engine, verticalExpansionStrategy, overflowStrategy, columnCount,
                   columnWidth, horizontalSpacing, verticalSpacing, margin, items,
                   item_ratios, pass, passes>>

setVerticalExpansionStrategy(strategy) ==
    /\ Len(setterCalls) < MaxSets
    /\ setterCalls' = Append(setterCalls, "setVerticalExpansionStrategy")
    /\ verticalExpansionStrategy' = strategy
    /\ UNCHANGED <<engine, horizontalAdaptationStrategy, overflowStrategy, columnCount,
                   columnWidth, horizontalSpacing, verticalSpacing, margin, items,
                   item_ratios, pass, passes>>

\* setHorizontalSpacing that assigns both spacings, as setSpacing does.
setHorizontalSpacingBoth(spacing) ==
    /\ Len(setterCalls) < MaxSets
    /\ setterCalls' = Append(setterCalls, "setHorizontalSpacing")
    /\ horizontalSpacing' = spacing
    /\ verticalSpacing' = spacing
    /\ UNCHANGED <<engine, horizontalAdaptationStrategy, verticalExpansionStrategy,
                   overflowStrategy, columnCount, columnWidth, margin,
                   items, item_ratios, pass, passes>>

setHorizontalSpacing(spacing) ==
    /\ Len(setterCalls) < MaxSets
    /\ setterCalls' = Append(setterCalls, "setHorizontalSpacing")
    /\ horizontalSpacing' = spacing
    /\ UNCHANGED <<engine, horizontalAdaptationStrategy, verticalExpansionStrategy,
                   overflowStrategy, columnCount, columnWidth, verticalSpacing, margin,
                   items, item_ratios, pass, passes>>

setVerticalSpacing(spacing) ==
    /\ Len(setterCalls) < MaxSets
    /\ setterCalls' = Append(setterCalls, "setVerticalSpacing")
    /\ verticalSpacing' = spacing
    /\ UNCHANGED <<engine, horizontalAdaptationStrategy, verticalExpansionStrategy,
                   overflowStrategy, columnCount, columnWidth, horizontalSpacing, margin,
                   items, item_ratios, pass, passes>>

\* QMasonryFlowLayout.setSpacing
setSpacing(spacing) ==
    /\ engine = "Flow"
    /\ Len(setterCalls) < MaxSets
    /\ setterCalls' = Append(setterCalls, "setSpacing")
    /\ horizontalSpacing' = spacing
    /\ verticalSpacing' = spacing
    /\ UNCHANGED <<engine, horizontalAdaptationStrategy, verticalExpansionStrategy,
                   overflowStrategy, columnCount, columnWidth, margin, items,
                   item_ratios, pass, passes>>

\* QMasonryBoxLayout.setColumnCount
setColumnCount(count) ==
    /\ engine = "Box"
    /\ Len(setterCalls) < MaxSets
    /\ setterCalls' = Append(setterCalls, "setColumnCount")
    /\ columnCount' = count
    /\ UNCHANGED <<engine, horizontalAdaptationStrategy, verticalExpansionStrategy,
                   overflowStrategy, columnWidth, horizontalSpacing, verticalSpacing,
                   margin, items, item_ratios, pass, passes>>

\* QMasonryFlowLayout.setColumnWidth
setColumnWidth(width) ==
    /\ engine = "Flow"
    /\ Len(setterCalls) < MaxSets
    /\ setterCalls' = Append(setterCalls, "setColumnWidth")
    /\ columnWidth' = RInt(width)
    /\ UNCHANGED <<engine, horizontalAdaptationStrategy, verticalExpansionStrategy,
                   overflowStrategy, columnCount, horizontalSpacing, verticalSpacing,
                   margin, items, item_ratios, pass, passes>>

\* ---------------------------------------------------------------- queries
count == Len(items)

itemAt(index) == IF 0 <= index /\ index < Len(items) THEN items[index + 1] ELSE <<>>

\* QLayout.minimumSize(), not overridden by either class.
minimumSize == <<0, 0>>

sizeHint == minimumSize

Next ==
    \/ \E W \in RegionWidths : setGeometry(W)
    \/ \E nat \in NaturalSizes : addItem(nat)
    \/ \E s \in HorizontalAdaptationStrategy \cup {Invalid} : setHorizontalAdaptationStrategy(s)
    \/ \E s \in VerticalExpansionStrategy \cup {Invalid} : setVerticalExpansionStrategy(s)
    \/ \E s \in Spacings : setHorizontalSpacing(s)
    \/ \E s \in Spacings : setVerticalSpacing(s)
    \/ \E s \in Spacings : setSpacing(s)
    \/ \E c \in ColumnCounts : setColumnCount(c)
    \/ \E w \in ColumnWidths : setColumnWidth(w)

\* The layout as __init__ leaves it: _overflowStrategy is AutoZoom.
Init == Constructed("AutoZoom")

Spec == Init /\ [][Next]_vars

\* _overflowStrategy has no setter: a layout whose attribute was given another
\* value, of the enumeration or not, before it is used.
InitOverflow == \E ov \in OverflowStrategy \cup {Invalid} : Constructed(ov)

SpecOverflow == InitOverflow /\ [][Next]_vars
\* ----------------------------------------------------------------- claims
Log == pass.log

Entries == 1..Len(Log)

ValidPolicies ==
    /\ pass.ha \in HorizontalAdaptationStrategy
    /\ pass.ve \in VerticalExpansionStrategy

\* col holds the minimum of heights and no lower-indexed column does.
IsLowestArgMin(heights, col) ==
    /\ \A k \in 1..Len(heights) : RLe(heights[col + 1], heights[k])
    /\ \A k \in 1..col : RLt(heights[col + 1], heights[k])

\* C1: under HeightBalance every item of a pass went to the lowest-indexed
\* column whose accumulated height was the minimum when it was selected.
C1_HeightBalanceArgMin ==
    pass.ve = "HeightBalance" =>
        \A e \in Entries : IsLowestArgMin(Log[e].before, Log[e].col)

\* C2: with a valid configuration whose overflow strategy is not Ignore, every
\* rectangle applied in a pass lies between the left and the right margin.
C2_RectWithinMargins ==
    (ValidPolicies /\ overflowStrategy \in {"AutoZoom", "AutoCrop"}) =>
        \A e \in Entries :
            /\ Log[e].rect[1] >= margin.left
            /\ Log[e].rect[1] + Log[e].rect[3] <= pass.W - margin.right

Rects(p) == [e \in 1..Len(p.log) |-> p.log[e].rect]

SameInputs(p, q) ==
    /\ p.W = q.W /\ p.ha = q.ha /\ p.ve = q.ve
    /\ p.spaceX = q.spaceX /\ p.spaceY = q.spaceY
    /\ p.count = q.count /\ REq(p.width, q.width) /\ p.n = q.n

\* C3: a pass that follows a pass with the same bounding rectangle,
\* configuration and items, under HeightBalance or OrderInsert, applies the
\* same rectangles as the pass before it.
C3_ConsecutivePassesAgree ==
    [][(/\ passes' = passes + 1
        /\ passes >= 1
        /\ SameInputs(pass, pass')
        /\ pass.ve \in {"HeightBalance", "OrderInsert"}
        /\ pass.ha \in HorizontalAdaptationStrategy
        /\ overflowStrategy \in OverflowStrategy
        /\ pass.fault = NoFault /\ pass'.fault = NoFault)
       => Rects(pass') = Rects(pass)]_vars

Zoomed(e, w) ==
    /\ Log[e].post.pinned = {"w", "h"}
    /\ Log[e].post.hint[1] = w
    /\ Log[e].post.hint[2] =
           Floor(RDivInt(RMul(RInt(Log[e].pre.hint[2]), pass.width), Log[e].pre.hint[1]))

\* C4 as stated: under overflow AutoZoom, whatever the horizontal adaptation,
\* an item whose natural width differs from the column width ends the pass
\* pinned to (columnWidth, naturalHeight * columnWidth / naturalWidth rounded down).
C4_ZoomWhateverAdaptation ==
    overflowStrategy = "AutoZoom" =>
        \A e \in Entries :
            ~REq(RInt(Log[e].pre.hint[1]), pass.width) =>
                /\ pass.width[1] % pass.width[2] = 0
                /\ Zoomed(e, Floor(pass.width))

\* C4 amended: under overflow AutoZoom and horizontal adaptation NoAdaption or
\* Spacing, an item whose widget width differs from the column width ends the
\* pass pinned to (columnWidth truncated to an integer, size-hint height *
\* columnWidth / size-hint width rounded down).
C4_ZoomUnlessAdaptationZooms ==
    (overflowStrategy = "AutoZoom" /\ pass.ha \in {"NoAdaption", "Spacing"}) =>
        \A e \in Entries :
            ~REq(RInt(Log[e].pre.wsize[1]), pass.width) => Zoomed(e, Trunc(pass.width))

C4_Witness ==
    /\ overflowStrategy = "AutoZoom"
    /\ pass.ha = "NoAdaption"
    /\ pass.fault = NoFault
    /\ \E e \in Entries :
          /\ ~REq(RInt(Log[e].pre.wsize[1]), pass.width)
          /\ Log[e].pre.pinned = {}
          /\ Log[e].post.hint # Log[e].pre.hint

\* No geometry is written from the faulting item on: the items written are
\* exactly those before it.
AbortsAt(p) == p.faultAt >= 1 /\ Len(p.log) = p.faultAt - 1

\* C5 as stated: a pass over at least one item, started with any of the three
\* strategy fields outside its declared set, aborts with the
\* invalid-configuration fault and writes no geometry from the faulting item on.
C5_AnyInvalidFieldAborts ==
    (/\ passes >= 1
     /\ pass.n >= 1
     /\ \/ pass.ha \notin HorizontalAdaptationStrategy
        \/ pass.ve \notin VerticalExpansionStrategy
        \/ overflowStrategy \notin OverflowStrategy)
    => (pass.fault = ValueError /\ AbortsAt(pass))

\* C5 amended: a pass over at least one item aborts, writing no geometry from
\* the faulting item on, when the horizontal adaptation or vertical expansion
\* field is outside its declared set, or the overflow field is and some item's
\* widget width differs from the resolved column width.  The fault is the
\* invalid-configuration fault, unless overflow AutoZoom first divides by the
\* zero width of the faulting item.
C5_InvalidFieldAbortsWhenDispatched ==
    [][(/\ passes' = passes + 1
        /\ pass'.n >= 1
        /\ \/ horizontalAdaptationStrategy \notin HorizontalAdaptationStrategy
           \/ verticalExpansionStrategy \notin VerticalExpansionStrategy
           \/ /\ overflowStrategy \notin OverflowStrategy
              /\ \E i \in 1..pass'.n : ~REq(RInt(items[i].wsize[1]), pass'.width))
       => /\ AbortsAt(pass')
          /\ \A i \in pass'.faultAt..Len(items) : items'[i].geom = items[i].geom
          /\ \/ pass'.fault = ValueError
             \/ /\ pass'.fault = ZeroDivisionError
                /\ overflowStrategy = "AutoZoom"
                /\ items[pass'.faultAt].hint[1] = 0]_vars

C5_Witness ==
    /\ overflowStrategy \notin OverflowStrategy
    /\ ValidPolicies
    /\ pass.fault = ValueError
    /\ pass.faultAt = 2
    /\ Len(Log) = 1
    /\ items[1].geom # NoGeom
    /\ items[2].geom = NoGeom

\* C6: once a pass has completed, the occupied-size query returns the size
\* that pass computed, (regionWidth, max of its final ColumnHeights).
C6_SizeHintIsLastComputedSize ==
    (passes >= 1 /\ pass.fault = NoFault) => sizeHint = pass.size

\* C7: in the Flow engine the stored column count is the largest number of
\* columns of the configured width that fit the region with the spacing
\* between them, and 1 when not even one fits; ColumnHeights has that many
\* entries, so at least one.
C7_FlowColumnCount ==
    (engine = "Flow" /\ passes >= 1) =>
        LET avail == pass.W - margin.left - margin.right
            fits(k) == k * pass.width[1] + (k - 1) * pass.spaceX <= avail
        IN  /\ columnCount = pass.count
            /\ columnCount >= 1
            /\ fits(columnCount) \/ columnCount = 1
            /\ ~fits(columnCount + 1)
            /\ Len(pass.heights) = columnCount
            /\ \A e \in Entries : Len(Log[e].before) = columnCount

C7_Witness ==
    /\ engine = "Flow"
    /\ passes >= 1
    /\ pass.W - margin.left - margin.right < pass.width[1]
    /\ columnCount = 1
    /\ Len(Log) >= 1

LastCall(calls) == calls[Len(calls)]

Setters == {"setHorizontalAdaptationStrategy", "setVerticalExpansionStrategy",
            "setHorizontalSpacing", "setVerticalSpacing", "setColumnCount",
            "setColumnWidth"}

OnlyItsField(op) ==
    /\ op # "setHorizontalAdaptationStrategy" => UNCHANGED horizontalAdaptationStrategy
    /\ op # "setVerticalExpansionStrategy" => UNCHANGED verticalExpansionStrategy
    /\ op # "setHorizontalSpacing" => UNCHANGED horizontalSpacing
    /\ op # "setVerticalSpacing" => UNCHANGED verticalSpacing
    /\ op # "setColumnCount" => UNCHANGED columnCount
    /\ op # "setColumnWidth" => UNCHANGED columnWidth
    /\ UNCHANGED overflowStrategy

\* C8: a call of a configuration setter changes that configuration field
\* only: no pass runs and the items (geometry, fixed size, order) and the
\* cached ratios stay as they were.
C8_SetterFrame ==
    [][(Len(setterCalls') = Len(setterCalls) + 1 /\ LastCall(setterCalls') \in Setters)
       => /\ OnlyItsField(LastCall(setterCalls'))
          /\ UNCHANGED <<items, item_ratios, pass, passes, margin, engine>>]_vars

C8_Witness ==
    /\ setterCalls # <<>>
    /\ LastCall(setterCalls) = "setHorizontalSpacing"
    /\ passes >= 1
    /\ Len(Log) >= 1
    /\ horizontalSpacing # pass.spaceX
    /\ verticalSpacing = pass.spaceY
    /\ \A e \in Entries : items[e].geom = Log[e].rect

\* C9: two items a pass placed in the same column are vertically disjoint
\* and at least verticalSpacing apart: the later one starts no higher than
\* the earlier one's y + applied height + verticalSpacing.
C9_SameColumnDisjoint ==
    (ValidPolicies /\ overflowStrategy \in OverflowStrategy) =>
        \A e, f \in Entries :
            (e < f /\ Log[e].col = Log[f].col) =>
                Log[f].rect[2] >= Log[e].rect[2] + Log[e].rect[4] + pass.spaceY

\* C10: the item sequence and the cached-ratio sequence always have the same
\* length, also after an addItem that faulted.
C10_ItemsAndRatiosSameLength ==
    Len(items) = Len(item_ratios)
====
